---- MODULE Spec2Model ----
(***************************************************************************)
(* The endpoint I/O driver of quinn (quinn/src/endpoint.rs): the Endpoint   *)
(* handles, the Incoming accept stream, the EndpointDriver future with its  *)
(* three pumps (drive_recv, drive_connections, drive_send), the connection  *)
(* set and the reference counting of EndpointRef.                           *)
(*                                                                          *)
(* The endpoint state lives behind one mutex.  The driver takes it for a    *)
(* whole poll pass, so the handle operations are enabled only while the     *)
(* driver is not inside a pass (LockFree).  Connection tasks take only      *)
(* their own connection lock and the dirty channel, so they interleave      *)
(* with the steps of a pass.                                                *)
(***************************************************************************)
EXTENDS Integers, Sequences, FiniteSets, TLC

(* ------------------------------ bounds --------------------------------- *)
\* connection handles the proto-endpoint ever hands out
MaxConn == 2
\* transmits ever pushed onto outgoing
MaxTx == 4
\* Endpoint handles alive at the same time
MaxEndpoints == 2
\* distinct timer deadlines
MaxDeadline == 2
\* socket polls one call of drive_recv or drive_send is followed through
MaxPolls == 2
\* calls of Endpoint::rebind
MaxRebinds == 2
\* bytes in one received message (meta.len)
MaxLen == 4
\* the segment size the socket reports for a message (meta.stride)
MaxStride == 3

(* ------------------------- program constants --------------------------- *)
\* udp::BATCH_SIZE, the batch width of poll_recv and poll_send
BATCH_SIZE == 2

\* VarInt error codes and reasons handed to Endpoint::close
Codes == {0, 7}
Reasons == {"bye"}

\* Option<T>: None is the empty sequence, Some(x) the one-element sequence
None == <<>>
Some(x) == <<x>>
IsSome(o) == o # <<>>
Unwrap(o) == o[1]

Handles == 1..MaxConn
Deadlines == 1..MaxDeadline
\* keys of the DelayQueue slab
TimerKeys == 1..(MaxConn + 1)

VARIABLES
    ref_count,       \* EndpointInner.ref_count
    endpoints,       \* number of live Endpoint handles (clones)
    incoming_alive,  \* the Incoming stream has not been dropped
    ipv6,            \* EndpointInner.ipv6
    socket,          \* EndpointInner.socket: 0 is the socket given at construction, n the
                     \* one handed to the n-th call of rebind
    rebind,          \* the calls of Endpoint::rebind so far and what the last one was
                     \* given and returned
    gro,             \* the message drive_recv is splitting: meta.len, meta.stride, the
                     \* bytes left in `data`, and the lengths of the segments fed so far
    driver,          \* EndpointInner.driver: a waker of the driver task is stored
    driver_lost,     \* EndpointInner.driver_lost
    pc,              \* position of the driver task
    woken,           \* the driver task has been woken and not yet polled
    result,          \* Output of the EndpointDriver future: "none", "Ok", "Err"
    kg,              \* keep_going of drive_recv, drive_connections, drive_send in this pass
    self_woke,       \* the pass called cx.waker().wake_by_ref()
    refs,            \* keys of connections.refs
    close,           \* connections.close
    conn,            \* per created handle: the ConnectionRef state
    proto,           \* proto::Endpoint: the handles it routes to, reject_new_connections
    incoming,        \* EndpointInner.incoming
    incoming_reader, \* EndpointInner.incoming_reader: a waker of the consumer is stored
    reader,          \* the consumer of Incoming: "ready", "parked", or "ended" (got None)
    yielded,         \* handles the accept stream has yielded, in order
    outgoing,        \* EndpointInner.outgoing
    sent,            \* transmits the socket accepted, in order
    ntx,             \* number of transmits pushed onto outgoing so far
    dirty_recv,      \* handles queued on the dirty channel
    dirty_waker,     \* the channel holds the driver's waker (poll_recv returned Pending)
    dirty_buffer,    \* EndpointInner.dirty_buffer
    drained,         \* local Vec `drained` of drive_connections
    keep_going,      \* local `keep_going` of drive_connections
    timers,          \* EndpointInner.timers: key -> None or Some(<<handle, deadline>>)
    polls,           \* socket polls the running pump has made and gone on from
    waiter           \* the caller of wait_idle: "none", "registered" (suspended on the
                     \* idle Notify), "notified", "returned_now", "returned_woken"

vars == <<ref_count, endpoints, incoming_alive, ipv6, socket, rebind, gro, driver, driver_lost, pc, woken,
          result, kg, self_woke, refs, close, conn, proto, incoming, incoming_reader,
          reader, yielded, outgoing, sent, ntx, dirty_recv, dirty_waker,
          dirty_buffer, drained, keep_going, timers, polls, waiter>>

\* groups used in UNCHANGED
vHandle == <<endpoints, incoming_alive, waiter>>
vSock   == <<socket, rebind, gro>>
vDriver == <<pc, result, kg, self_woke, drained, keep_going, polls>>
vAccept == <<incoming, incoming_reader, reader, yielded>>
vSend   == <<outgoing, sent, ntx>>
vDirty  == <<dirty_recv, dirty_waker, dirty_buffer>>

NoKg == [recv |-> FALSE, conns |-> FALSE, send |-> FALSE]

\* the driver holds the endpoint mutex from the start to the end of a pass
PassPcs == {"recv", "timers", "dirty", "send", "send_poll", "finish", "ret"}
LockFree == pc \notin PassPcs
\* the driver future still exists (not completed and dropped, not aborted)
DriverAlive == pc \notin {"done", "gone"}

(* ------------------------- connection state ---------------------------- *)
\* Connecting::new: a fresh ConnectionRef; timeout is what its poll_timeout() returned
\* when the driver last asked
NewConn(side) ==
    [closed |-> None, is_dirty |-> FALSE, pend |-> "none", side |-> side,
     remote |-> "peer", after |-> 0, fwd |-> 0, pings |-> 0,
     timeout |-> None, timer_handle |-> None, timer_deadline |-> None]

\* state.close(code, reason): the connection records the first close invoked on it
ConnClose(c, args) ==
    [c EXCEPT !.closed = IF IsSome(c.closed) THEN c.closed ELSE Some(args)]

\* State::wake: mark dirty and queue the handle unless already dirty
WakeDirty(cs, h) == [cs EXCEPT ![h].is_dirty = TRUE]
WakeChan(cs, ch, h) == IF cs[h].is_dirty THEN ch ELSE Append(ch, h)

\* all orders in which the handles of S can be visited (iteration over the hash map)
Orders(S) == {q \in [1..Cardinality(S) -> S] : \A i, j \in DOMAIN q : i # j => q[i] # q[j]}

Created == DOMAIN conn
NextHandle == Cardinality(DOMAIN conn) + 1

(* ------------------------------ Init ----------------------------------- *)
\* Endpoint::new_with_runtime: EndpointRef::new (ref_count 0), one clone for the driver,
\* one clone for the Endpoint; the Incoming takes the original reference.
Construct(v6) ==
    /\ ref_count = 2
    /\ endpoints = 1
    /\ incoming_alive = TRUE
    /\ ipv6 = v6
    /\ socket = 0
    /\ rebind = [calls |-> 0, v6 |-> v6, result |-> "none"]
    /\ gro = [len |-> 0, stride |-> 0, data |-> 0, segs |-> <<>>]
    /\ driver = FALSE
    /\ driver_lost = FALSE
    /\ pc = "idle"
    /\ woken = TRUE
    /\ result = "none"
    /\ kg = NoKg
    /\ self_woke = FALSE
    /\ refs = {}
    /\ close = None
    /\ conn = <<>>
    /\ proto = [conns |-> {}, reject |-> FALSE]
    /\ incoming = <<>>
    /\ incoming_reader = FALSE
    /\ reader = "ready"
    /\ yielded = <<>>
    /\ outgoing = <<>>
    /\ sent = <<>>
    /\ ntx = 0
    /\ dirty_recv = <<>>
    /\ dirty_waker = FALSE
    /\ dirty_buffer = <<>>
    /\ drained = <<>>
    /\ keep_going = FALSE
    /\ timers = [k \in TimerKeys |-> None]
    /\ polls = 0
    /\ waiter = "none"

\* the socket's local address is IPv4 or IPv6
Init == \E v6 \in BOOLEAN : Construct(v6)

\* an endpoint on an IPv6 socket, from which every destination can be reached
InitV6 == Construct(TRUE)

(* --------------------------- EndpointRef -------------------------------- *)
\* Drop for EndpointRef: checked_sub(1)
RefDropCount(rc) == IF rc >= 1 THEN rc - 1 ELSE rc
\* a drop that never wakes the driver
RefDropNoWake(rc, drv) == FALSE

\* Drop for EndpointRef: the drop that brings ref_count to 0 takes the driver waker
RefDropWakes(rc, drv) == rc = 1 /\ drv

\* Clone for Endpoint (derive) -> Clone for EndpointRef
EndpointClone ==
    /\ LockFree
    /\ endpoints >= 1
    /\ endpoints < MaxEndpoints
    /\ ref_count' = ref_count + 1
    /\ endpoints' = endpoints + 1
    /\ UNCHANGED <<incoming_alive, waiter, ipv6, vSock, driver, driver_lost, woken, refs, close,
                   conn, proto, timers, vDriver, vAccept, vSend, vDirty>>

\* dropping an Endpoint handle -> Drop for EndpointRef
EndpointDrop ==
    /\ LockFree
    /\ endpoints >= 1
    /\ endpoints' = endpoints - 1
    /\ ref_count' = RefDropCount(ref_count)
    /\ driver' = (driver /\ ~RefDropWakes(ref_count, driver))
    /\ woken' = (woken \/ RefDropWakes(ref_count, driver))
    /\ UNCHANGED <<incoming_alive, waiter, ipv6, vSock, driver_lost, refs, close, conn, proto,
                   timers, vDriver, vAccept, vSend, vDirty>>

(* --------------------------- ConnectionSet ------------------------------ *)
\* an insert that forgets the recorded close
InsertedConnOpen(side, cl) == NewConn(side)

\* ConnectionSet::insert: the new ConnectionRef, closed first if a close is recorded
InsertedConn(side, cl) ==
    IF IsSome(cl) THEN WakeDirty(<<ConnClose(NewConn(side), Unwrap(cl))>>, 1)[1]
    ELSE NewConn(side)

\* the handle is queued on the dirty channel by the close applied at insertion
InsertedChan(ch, h, cl) == IF IsSome(cl) THEN Append(ch, h) ELSE ch

(* ----------------------------- connect ---------------------------------- *)
\* a destination as the caller gives it: SocketAddr::V6 or SocketAddr::V4
Addr(addr6) == IF addr6 THEN "V6" ELSE "V4"

\* an ensure_ipv6 that passes every address through as it is
ensure_ipv6_same(x) == x

\* ensure_ipv6: a V6 address as it is, a V4 address in its IPv6-mapped form
ensure_ipv6(x) == IF x = "V4" THEN "V4Mapped" ELSE x

\* the address connect_with hands to the proto-endpoint's connect
ProtoAddr(addr6) == IF ipv6 THEN ensure_ipv6(Addr(addr6)) ELSE Addr(addr6)

\* a connect_with that does not look at driver_lost
ConnectWithResultBlind(addr6, ok) ==
    IF addr6 /\ ~ipv6 THEN "InvalidRemoteAddress"
    ELSE IF ~ok THEN "ProtoError"
    ELSE "Ok"

\* what Endpoint::connect_with returns; addr6: the destination is IPv6; ok: the
\* proto-endpoint's connect succeeds
ConnectWithResult(addr6, ok) ==
    IF driver_lost THEN "EndpointStopping"
    ELSE IF addr6 /\ ~ipv6 THEN "InvalidRemoteAddress"
    ELSE IF ~ok THEN "ProtoError"
    ELSE "Ok"

\* what Endpoint::connect returns; cfg: the handle has a default_client_config
ConnectResult(cfg, addr6, ok) ==
    IF ~cfg THEN "NoDefaultClientConfig" ELSE ConnectWithResult(addr6, ok)

\* the effect of a connect call that returns res
ConnectEffect(res, addr6) ==
    IF res = "Ok"
    THEN /\ NextHandle <= MaxConn
         /\ conn' = conn @@ (NextHandle :>
                        [InsertedConn("client", close) EXCEPT !.remote = ProtoAddr(addr6)])
         /\ refs' = refs \cup {NextHandle}
         /\ proto' = [proto EXCEPT !.conns = @ \cup {NextHandle}]
         /\ dirty_recv' = InsertedChan(dirty_recv, NextHandle, close)
         /\ woken' = (woken \/ (IsSome(close) /\ dirty_waker))
         /\ dirty_waker' = (dirty_waker /\ ~IsSome(close))
    ELSE UNCHANGED <<refs, conn, proto, dirty_recv, dirty_waker, woken>>

\* Endpoint::connect on a live handle
Connect(cfg, addr6, ok) ==
    /\ LockFree
    /\ endpoints >= 1
    /\ ConnectEffect(ConnectResult(cfg, addr6, ok), addr6)
    /\ UNCHANGED <<ref_count, ipv6, vSock, driver, driver_lost, close, timers, dirty_buffer,
                   vHandle, vDriver, vAccept, vSend>>

\* Endpoint::connect_with called directly on a live handle
ConnectWith(addr6, ok) ==
    /\ LockFree
    /\ endpoints >= 1
    /\ ConnectEffect(ConnectWithResult(addr6, ok), addr6)
    /\ UNCHANGED <<ref_count, ipv6, vSock, driver, driver_lost, close, timers, dirty_buffer,
                   vHandle, vDriver, vAccept, vSend>>

(* ------------------------------ close ----------------------------------- *)
\* Endpoint::close(error_code, reason); q: the order in which refs.values() is visited
Close(c, r, q) ==
    /\ LockFree
    /\ endpoints >= 1
    /\ close' = Some(<<c, r>>)
    /\ conn' = [h \in Created |->
                  IF h \in refs THEN WakeDirty(<<ConnClose(conn[h], <<c, r>>)>>, 1)[1]
                  ELSE conn[h]]
    /\ dirty_recv' = dirty_recv \o SelectSeq(q, LAMBDA h : ~conn[h].is_dirty)
    /\ woken' = (woken \/ (dirty_waker /\ \E h \in refs : ~conn[h].is_dirty))
    /\ dirty_waker' = (dirty_waker /\ ~\E h \in refs : ~conn[h].is_dirty)
    /\ incoming_reader' = FALSE
    /\ reader' = IF incoming_reader THEN "ready" ELSE reader
    /\ UNCHANGED <<ref_count, ipv6, vSock, driver, driver_lost, refs, proto, timers,
                   dirty_buffer, incoming, yielded, vHandle, vDriver, vSend>>

(* ------------------------------ rebind ---------------------------------- *)
\* what Endpoint::rebind returns; addr_ok: socket.local_addr() succeeds; wrap_ok:
\* runtime.wrap_udp_socket succeeds
RebindResult(addr_ok, wrap_ok) == IF addr_ok /\ wrap_ok THEN "Ok" ELSE "Err"

\* a rebind that installs the socket before it knows whether it can be used
SocketAfterEager(res, new) == new

\* inner.socket after a call of rebind that returns res and was given the socket new
SocketAfter(res, new) == IF res = "Ok" THEN new ELSE socket

\* Endpoint::rebind on a live handle; v6: the family of the new socket's local address;
\* q: the order in which refs.values() is visited.  The two fallible calls come before
\* the lock is taken, so a failing call does not wait for the driver
Rebind(addr_ok, wrap_ok, v6, q) ==
    /\ endpoints >= 1
    /\ rebind.calls < MaxRebinds
    /\ LET res == RebindResult(addr_ok, wrap_ok)
           new == rebind.calls + 1
       IN  /\ rebind' = [calls |-> new, v6 |-> v6, result |-> res]
           /\ socket' = SocketAfter(res, new)
           /\ IF res = "Ok"
              THEN /\ LockFree
                   /\ ipv6' = v6
                   /\ conn' = [h \in Created |->
                                 IF h \in refs
                                 THEN WakeDirty(<<[conn[h] EXCEPT !.pings = @ + 1]>>, 1)[1]
                                 ELSE conn[h]]
                   /\ dirty_recv' = dirty_recv \o SelectSeq(q, LAMBDA h : ~conn[h].is_dirty)
                   /\ woken' = (woken \/ (dirty_waker /\ \E h \in refs : ~conn[h].is_dirty))
                   /\ dirty_waker' = (dirty_waker /\ ~\E h \in refs : ~conn[h].is_dirty)
              ELSE UNCHANGED <<ipv6, conn, dirty_recv, woken, dirty_waker>>
    /\ UNCHANGED <<ref_count, driver, driver_lost, refs, close, proto, timers, dirty_buffer,
                   gro, vHandle, vDriver, vAccept, vSend>>

(* ----------------------------- wait_idle -------------------------------- *)
\* a wait_idle that trusts the notification and returns without looking again
WaitIdleTrusting(w, empty) ==
    IF w = "notified" THEN "returned_woken"
    ELSE IF empty THEN "returned_now" ELSE "registered"

\* one turn of the loop of wait_idle, entered by a call or by a wakeup, with the lock
\* held: break if connections is empty, else create idle.notified() and await it
WaitIdleTurn(w, empty) ==
    IF empty THEN (IF w = "notified" THEN "returned_woken" ELSE "returned_now")
    ELSE "registered"

\* Endpoint::wait_idle is called on a live handle
WaitIdleCall ==
    /\ LockFree
    /\ endpoints >= 1
    /\ waiter \in {"none", "returned_now", "returned_woken"}
    /\ waiter' = WaitIdleTurn("none", refs = {})
    /\ UNCHANGED <<ref_count, endpoints, incoming_alive, ipv6, vSock, driver, driver_lost, woken,
                   refs, close, conn, proto, timers, vDriver, vAccept, vSend, vDirty>>

\* the Notified future completed: wait_idle takes the lock and looks again
WaitIdleResume ==
    /\ LockFree
    /\ waiter = "notified"
    /\ waiter' = WaitIdleTurn(waiter, refs = {})
    /\ UNCHANGED <<ref_count, endpoints, incoming_alive, ipv6, vSock, driver, driver_lost, woken,
                   refs, close, conn, proto, timers, vDriver, vAccept, vSend, vDirty>>

(* --------------------------- accept stream ------------------------------ *)
\* Incoming::poll
IncomingPoll ==
    /\ LockFree
    /\ incoming_alive
    /\ reader \in {"ready", "ended"}
    /\ IF driver_lost THEN
           /\ reader' = "ended"
           /\ UNCHANGED <<incoming, yielded, incoming_reader>>
       ELSE IF incoming # <<>> THEN
           /\ reader' = "ready"
           /\ yielded' = Append(yielded, Head(incoming))
           /\ incoming' = Tail(incoming)
           /\ UNCHANGED incoming_reader
       ELSE IF IsSome(close) THEN
           /\ reader' = "ended"
           /\ UNCHANGED <<incoming, yielded, incoming_reader>>
       ELSE
           /\ reader' = "parked"
           /\ incoming_reader' = TRUE
           /\ UNCHANGED <<incoming, yielded>>
    /\ UNCHANGED <<ref_count, ipv6, vSock, driver, driver_lost, woken, refs, close, conn, proto,
                   timers, vHandle, vDriver, vSend, vDirty>>

\* Drop for Incoming, then Drop for its EndpointRef
IncomingDrop ==
    /\ LockFree
    /\ incoming_alive
    /\ incoming_alive' = FALSE
    /\ proto' = [proto EXCEPT !.reject = TRUE]
    /\ incoming_reader' = FALSE
    /\ ref_count' = RefDropCount(ref_count)
    /\ driver' = (driver /\ ~RefDropWakes(ref_count, driver))
    /\ woken' = (woken \/ RefDropWakes(ref_count, driver))
    /\ UNCHANGED <<endpoints, waiter, ipv6, vSock, driver_lost, refs, close, conn, timers,
                   incoming, reader, yielded, vDriver, vSend, vDirty>>

(* --------------------------- connection tasks --------------------------- *)
\* a connection task (or the application) touches its connection and calls State::wake
ConnWake(h) ==
    /\ h \in Created
    /\ ~conn[h].is_dirty
    /\ conn' = WakeDirty(conn, h)
    /\ dirty_recv' = WakeChan(conn, dirty_recv, h)
    /\ woken' = (woken \/ dirty_waker)
    /\ dirty_waker' = FALSE
    /\ UNCHANGED <<ref_count, ipv6, vSock, driver, driver_lost, refs, close, proto, timers, dirty_buffer, vHandle, vDriver, vAccept, vSend>>

\* the proto connection of h reaches the drained state: its Drained endpoint event is
\* ready for poll_endpoint_events, and the connection wakes the endpoint
ConnEmitsDrained(h) ==
    /\ h \in refs
    /\ conn[h].pend = "none"
    /\ conn' = WakeDirty([conn EXCEPT ![h].pend = "drained"], h)
    /\ dirty_recv' = WakeChan(conn, dirty_recv, h)
    /\ woken' = (woken \/ (dirty_waker /\ ~conn[h].is_dirty))
    /\ dirty_waker' = (dirty_waker /\ conn[h].is_dirty)
    /\ UNCHANGED <<ref_count, ipv6, vSock, driver, driver_lost, refs, close, proto, timers, dirty_buffer, vHandle, vDriver, vAccept, vSend>>

\* the proto connection of h queues one more endpoint event behind its drained marker
ConnEmitsLate(h) ==
    /\ h \in refs
    /\ conn[h].pend = "drained"
    /\ conn[h].after = 0
    /\ conn' = [conn EXCEPT ![h].after = 1]
    /\ UNCHANGED <<ref_count, ipv6, vSock, driver, driver_lost, woken, refs, close, proto, timers,
                   vHandle, vDriver, vAccept, vSend, vDirty>>

\* the socket becomes readable or writable, or a timer deadline passes: the waker the
\* driver registered there is invoked
EnvWake ==
    /\ DriverAlive
    /\ driver
    /\ ~woken
    /\ woken' = TRUE
    /\ UNCHANGED <<ref_count, ipv6, vSock, driver, driver_lost, refs, close, conn, proto, timers, vHandle, vDriver, vAccept, vSend, vDirty>>

(* ------------------------- EndpointDriver::poll ------------------------- *)
\* the runtime polls the driver task: lock, store the waker, start drive_recv
PollStart ==
    /\ pc = "idle"
    /\ woken
    /\ woken' = FALSE
    /\ driver' = TRUE
    /\ pc' = "recv"
    /\ kg' = NoKg
    /\ self_woke' = FALSE
    /\ polls' = 0
    /\ UNCHANGED <<ref_count, ipv6, vSock, driver_lost, result, drained, keep_going, refs, close,
                   conn, proto, timers, vHandle, vAccept, vSend, vDirty>>

\* where drive_recv goes after a datagram: on to the next one, or, when it was the last
\* of its batch and the limiter vetoes, return Ok(true)
RecvAfter(last, allow) ==
    IF last /\ ~allow
    THEN /\ pc' = "timers"
         /\ kg' = [kg EXCEPT !.recv = TRUE]
         /\ polls' = 0
    ELSE IF last
    THEN /\ polls < MaxPolls
         /\ polls' = polls + 1
         /\ UNCHANGED <<pc, kg>>
    ELSE UNCHANGED <<pc, kg, polls>>

\* drive_recv: the proto-endpoint answers a datagram with NewConnection
RecvNewConn(last, allow) ==
    /\ pc = "recv"
    /\ ~proto.reject
    /\ NextHandle <= MaxConn
    /\ conn' = conn @@ (NextHandle :> InsertedConn("server", close))
    /\ refs' = refs \cup {NextHandle}
    /\ proto' = [proto EXCEPT !.conns = @ \cup {NextHandle}]
    /\ dirty_recv' = InsertedChan(dirty_recv, NextHandle, close)
    /\ woken' = (woken \/ (IsSome(close) /\ dirty_waker))
    /\ dirty_waker' = (dirty_waker /\ ~IsSome(close))
    /\ incoming' = Append(incoming, NextHandle)
    /\ RecvAfter(last, allow)
    /\ UNCHANGED <<ref_count, ipv6, vSock, driver, driver_lost, result, self_woke, drained,
                   keep_going, close, timers, dirty_buffer, incoming_reader,
                   reader, yielded, vHandle, vSend>>

\* drive_recv: the proto-endpoint answers a datagram with ConnectionEvent for handle h
RecvConnEvent(h, last, allow) ==
    /\ pc = "recv"
    /\ h \in proto.conns
    /\ IF h \in refs
       THEN /\ conn' = WakeDirty(conn, h)
            /\ dirty_recv' = WakeChan(conn, dirty_recv, h)
            /\ woken' = (woken \/ (dirty_waker /\ ~conn[h].is_dirty))
            /\ dirty_waker' = (dirty_waker /\ conn[h].is_dirty)
            /\ RecvAfter(last, allow)
       ELSE \* refs.get(&handle).unwrap() panics
            /\ pc' = "panic"
            /\ UNCHANGED <<conn, dirty_recv, woken, dirty_waker, kg, polls>>
    /\ UNCHANGED <<ref_count, ipv6, vSock, driver, driver_lost, result, self_woke, drained,
                   keep_going, refs, close, proto, timers, dirty_buffer,
                   vHandle, vAccept, vSend>>

\* drive_recv: the proto-endpoint discards the datagram
RecvDiscard(last, allow) ==
    /\ pc = "recv"
    /\ RecvAfter(last, allow)
    /\ UNCHANGED <<ref_count, ipv6, vSock, driver, driver_lost, woken, result, self_woke, drained,
                   keep_going, refs, close, conn, proto, timers, vHandle,
                   vAccept, vSend, vDirty>>

\* drive_recv: poll_recv returns one message of len bytes whose segments are stride bytes
\* long: data = buf[0..meta.len]
RecvMsg(len, stride) ==
    /\ pc = "recv"
    /\ gro.data = 0
    /\ polls < MaxPolls
    /\ polls' = polls + 1
    /\ gro' = [len |-> len, stride |-> stride, data |-> len, segs |-> <<>>]
    /\ UNCHANGED <<ref_count, ipv6, socket, rebind, driver, driver_lost, woken, result, kg,
                   self_woke, pc, drained, keep_going, refs, close, conn, proto, timers,
                   vHandle, vAccept, vSend, vDirty>>

Min(a, b) == IF a <= b THEN a ELSE b

\* the length of the segment data.split_to(meta.stride.min(data.len())) cuts off
SegLen(g) == Min(g.stride, g.data)

\* the message after one turn of the split loop.  An empty segment leaves data as it
\* was, so every later turn repeats this one: it is recorded once
SplitTo(g) ==
    IF SegLen(g) = 0 /\ g.segs # <<>> /\ g.segs[Len(g.segs)] = 0 THEN g
    ELSE [g EXCEPT !.data = @ - SegLen(g), !.segs = Append(@, SegLen(g))]

\* the split loop: the proto-endpoint answers the next segment with NewConnection
SplitNewConn ==
    /\ pc = "recv"
    /\ gro.data > 0
    /\ SegLen(gro) >= 1
    /\ gro' = SplitTo(gro)
    /\ ~proto.reject
    /\ NextHandle <= MaxConn
    /\ conn' = conn @@ (NextHandle :> InsertedConn("server", close))
    /\ refs' = refs \cup {NextHandle}
    /\ proto' = [proto EXCEPT !.conns = @ \cup {NextHandle}]
    /\ dirty_recv' = InsertedChan(dirty_recv, NextHandle, close)
    /\ woken' = (woken \/ (IsSome(close) /\ dirty_waker))
    /\ dirty_waker' = (dirty_waker /\ ~IsSome(close))
    /\ incoming' = Append(incoming, NextHandle)
    /\ UNCHANGED <<ref_count, ipv6, socket, rebind, driver, driver_lost, close, timers,
                   dirty_buffer, incoming_reader, reader, yielded, vHandle, vDriver, vSend>>

\* the split loop: the proto-endpoint answers the next segment with ConnectionEvent for h
SplitConnEvent(h) ==
    /\ pc = "recv"
    /\ gro.data > 0
    /\ SegLen(gro) >= 1
    /\ gro' = SplitTo(gro)
    /\ h \in proto.conns
    /\ h \in refs
    /\ conn' = WakeDirty(conn, h)
    /\ dirty_recv' = WakeChan(conn, dirty_recv, h)
    /\ woken' = (woken \/ (dirty_waker /\ ~conn[h].is_dirty))
    /\ dirty_waker' = (dirty_waker /\ conn[h].is_dirty)
    /\ UNCHANGED <<ref_count, ipv6, socket, rebind, driver, driver_lost, refs, close, proto,
                   timers, dirty_buffer, vHandle, vDriver, vAccept, vSend>>

\* the split loop: the proto-endpoint discards the next segment
SplitDiscard ==
    /\ pc = "recv"
    /\ gro.data > 0
    /\ gro' = SplitTo(gro)
    /\ UNCHANGED <<ref_count, ipv6, socket, rebind, driver, driver_lost, woken, refs, close,
                   conn, proto, timers, vHandle, vDriver, vAccept, vSend, vDirty>>

\* drive_recv: poll_recv returns Pending: break, return Ok(false)
RecvPending ==
    /\ pc = "recv"
    /\ pc' = "timers"
    /\ kg' = [kg EXCEPT !.recv = FALSE]
    /\ polls' = 0
    /\ UNCHANGED <<ref_count, ipv6, vSock, driver, driver_lost, woken, result, self_woke, drained,
                   keep_going, refs, close, conn, proto, timers, vHandle,
                   vAccept, vSend, vDirty>>

\* drive_recv: poll_recv returns ConnectionReset: continue with the next poll_recv
RecvReset ==
    /\ pc = "recv"
    /\ polls < MaxPolls
    /\ polls' = polls + 1
    /\ UNCHANGED <<ref_count, ipv6, vSock, driver, driver_lost, woken, result, kg, self_woke, pc,
                   drained, keep_going, refs, close, conn, proto, timers, vHandle,
                   vAccept, vSend, vDirty>>

\* drive_recv: poll_recv returns another error: poll returns it through `?`
RecvErr ==
    /\ pc = "recv"
    /\ pc' = "done"
    /\ result' = "Err"
    /\ kg' = NoKg
    /\ polls' = 0
    /\ UNCHANGED <<ref_count, ipv6, vSock, driver, driver_lost, woken, self_woke, drained,
                   keep_going, refs, close, conn, proto, timers, vHandle,
                   vAccept, vSend, vDirty>>

(* --------------------------- drive_connections -------------------------- *)
\* the timers loop: the entry under key k has expired
TimerExpire(k) ==
    /\ pc = "timers"
    /\ IsSome(timers[k])
    /\ timers' = [timers EXCEPT ![k] = None]
    /\ LET h == Unwrap(timers[k])[1] IN
       IF h \in refs
       THEN /\ conn' = WakeDirty([conn EXCEPT ![h].timer_handle = None,
                                              ![h].timer_deadline = None], h)
            /\ dirty_recv' = WakeChan(conn, dirty_recv, h)
            /\ woken' = (woken \/ (dirty_waker /\ ~conn[h].is_dirty))
            /\ dirty_waker' = (dirty_waker /\ conn[h].is_dirty)
       ELSE UNCHANGED <<conn, dirty_recv, woken, dirty_waker>>
    /\ UNCHANGED <<ref_count, ipv6, vSock, driver, driver_lost, refs, close, proto,
                   dirty_buffer, vHandle, vDriver, vAccept, vSend>>

\* a snapshot that stops before the channel reports Pending and so leaves no waker in it
CollectDirtyUnregistered ==
    /\ pc = "timers"
    /\ dirty_buffer' = dirty_buffer \o dirty_recv
    /\ dirty_recv' = <<>>
    /\ dirty_waker' = FALSE
    /\ drained' = <<>>
    /\ keep_going' = FALSE
    /\ pc' = "dirty"
    /\ UNCHANGED polls
    /\ UNCHANGED <<ref_count, ipv6, vSock, driver, driver_lost, woken, result, kg, self_woke, refs,
                   close, conn, proto, timers, vHandle, vAccept, vSend>>

\* poll_expired has nothing more; the dirty channel is drained into dirty_buffer until
\* its poll_recv returns Pending, which leaves the driver's waker in the channel
CollectDirty ==
    /\ pc = "timers"
    /\ dirty_buffer' = dirty_buffer \o dirty_recv
    /\ dirty_recv' = <<>>
    /\ dirty_waker' = TRUE
    /\ drained' = <<>>
    /\ keep_going' = FALSE
    /\ pc' = "dirty"
    /\ UNCHANGED polls
    /\ UNCHANGED <<ref_count, ipv6, vSock, driver, driver_lost, woken, result, kg, self_woke, refs,
                   close, conn, proto, timers, vHandle, vAccept, vSend>>

\* the lowest free key of the DelayQueue slab
FreeKey == CHOOSE k \in TimerKeys : timers[k] = None /\ \A j \in TimerKeys : j < k => IsSome(timers[j])

\* the timer update of the dirty loop for connection h whose poll_timeout() returned t
TimerUpdated(h, t) == IsSome(t) /\ Some(Unwrap(t)) # conn[h].timer_deadline

\* a timer update that arms nothing
TimersAfterNone(h, t) == timers

\* self.timers after the update: reset_at under the connection's key, or insert_at
TimersAfter(h, t) ==
    IF ~TimerUpdated(h, t) THEN timers
    ELSE IF IsSome(conn[h].timer_handle)
         THEN [timers EXCEPT ![Unwrap(conn[h].timer_handle)] = Some(<<h, Unwrap(t)>>)]
         ELSE [timers EXCEPT ![FreeKey] = Some(<<h, Unwrap(t)>>)]

\* a timer update that forgets the key insert_at returned
TimerHandleAfterLost(h, t) == conn[h].timer_handle

\* state.timer_handle after the update
TimerHandleAfter(h, t) ==
    IF TimerUpdated(h, t) /\ ~IsSome(conn[h].timer_handle) THEN Some(FreeKey)
    ELSE conn[h].timer_handle

\* an event loop that stops polling at the drained marker
ForwardedLateNone(c) == 0

\* the events behind the drained marker of connection c that the poll_endpoint_events
\* loop hands to the proto-endpoint: it runs until the connection has none left
ForwardedLate(c) == c.after

\* a dirty loop that retires a drained connection without handing its drained event to
\* the proto-endpoint
ProcessDirtyUntold(ntr, more, t, reply) ==
    /\ pc = "dirty"
    /\ dirty_buffer # <<>>
    /\ dirty_buffer' = Tail(dirty_buffer)
    /\ LET h == Head(dirty_buffer) IN
       IF h \notin refs
       THEN UNCHANGED <<conn, outgoing, ntx, timers, drained, proto, keep_going,
                        dirty_recv, woken, dirty_waker>>
       ELSE LET isDrained == conn[h].pend = "drained"
                keep_conn_going == more \/ reply
            IN  /\ ntx + ntr <= MaxTx
                /\ outgoing' = outgoing \o [i \in 1..ntr |-> ntx + i]
                /\ ntx' = ntx + ntr
                /\ timers' = TimersAfter(h, t)
                /\ drained' = IF isDrained THEN Append(drained, h) ELSE drained
                /\ proto' = proto
                /\ conn' = [conn EXCEPT ![h].is_dirty = keep_conn_going,
                                        ![h].timeout = t,
                                        ![h].timer_handle = TimerHandleAfter(h, t),
                                        ![h].fwd = IF isDrained THEN ForwardedLate(conn[h]) ELSE @,
                                        ![h].pend = IF isDrained THEN "gone" ELSE @]
                /\ dirty_recv' = IF keep_conn_going THEN Append(dirty_recv, h) ELSE dirty_recv
                /\ woken' = (woken \/ (keep_conn_going /\ dirty_waker))
                /\ dirty_waker' = (dirty_waker /\ ~keep_conn_going)
                /\ keep_going' = (keep_going \/ TimerUpdated(h, t) \/ keep_conn_going)
    /\ UNCHANGED polls
    /\ UNCHANGED <<ref_count, ipv6, vSock, driver, driver_lost, pc, result, kg, self_woke, refs,
                   close, sent, vHandle, vAccept>>

\* the body of the dirty loop for the first handle of dirty_buffer
\*   ntr: transmits drive_transmit pushes; more: drive_transmit wants another call;
\*   t: poll_timeout(); reply: the proto-endpoint answers an endpoint event with an event
ProcessDirty(ntr, more, t, reply) ==
    /\ pc = "dirty"
    /\ dirty_buffer # <<>>
    /\ dirty_buffer' = Tail(dirty_buffer)
    /\ LET h == Head(dirty_buffer) IN
       IF h \notin refs
       THEN UNCHANGED <<conn, outgoing, ntx, timers, drained, proto, keep_going,
                        dirty_recv, woken, dirty_waker>>
       ELSE LET isDrained == conn[h].pend = "drained"
                keep_conn_going == more \/ reply
            IN  /\ ntx + ntr <= MaxTx
                /\ outgoing' = outgoing \o [i \in 1..ntr |-> ntx + i]
                /\ ntx' = ntx + ntr
                /\ timers' = TimersAfter(h, t)
                /\ drained' = IF isDrained THEN Append(drained, h) ELSE drained
                /\ proto' = IF isDrained THEN [proto EXCEPT !.conns = @ \ {h}] ELSE proto
                /\ conn' = [conn EXCEPT ![h].is_dirty = keep_conn_going,
                                        ![h].timeout = t,
                                        ![h].timer_handle = TimerHandleAfter(h, t),
                                        ![h].fwd = IF isDrained THEN ForwardedLate(conn[h]) ELSE @,
                                        ![h].pend = IF isDrained THEN "gone" ELSE @]
                /\ dirty_recv' = IF keep_conn_going THEN Append(dirty_recv, h) ELSE dirty_recv
                /\ woken' = (woken \/ (keep_conn_going /\ dirty_waker))
                /\ dirty_waker' = (dirty_waker /\ ~keep_conn_going)
                /\ keep_going' = (keep_going \/ TimerUpdated(h, t) \/ keep_conn_going)
    /\ UNCHANGED polls
    /\ UNCHANGED <<ref_count, ipv6, vSock, driver, driver_lost, pc, result, kg, self_woke, refs,
                   close, sent, vHandle, vAccept>>

\* a drive_connections that never signals idle
IdleNotifiedNever(w, empty) == w

\* idle.notify_waiters() if connections is empty: a registered waiter is notified
IdleNotified(w, empty) == IF empty /\ w = "registered" THEN "notified" ELSE w

\* after the dirty loop: remove the drained connections, signal idle, return keep_going
RetireDrained ==
    /\ pc = "dirty"
    /\ dirty_buffer = <<>>
    /\ refs' = refs \ {drained[i] : i \in DOMAIN drained}
    /\ waiter' = IdleNotified(waiter, refs' = {})
    /\ drained' = <<>>
    /\ kg' = [kg EXCEPT !.conns = keep_going]
    /\ keep_going' = FALSE
    /\ pc' = "send"
    /\ UNCHANGED polls
    /\ UNCHANGED <<ref_count, endpoints, incoming_alive, ipv6, vSock, driver, driver_lost, woken,
                   result, self_woke, close, conn, proto, timers, vAccept, vSend, vDirty>>

(* ------------------------------ drive_send ------------------------------ *)
\* top up outgoing from the proto-endpoint: n transmits from poll_transmit
SendTopUp(n) ==
    /\ pc = "send"
    /\ n = 0 \/ Len(outgoing) + n <= BATCH_SIZE
    /\ ntx + n <= MaxTx
    /\ outgoing' = outgoing \o [i \in 1..n |-> ntx + i]
    /\ ntx' = ntx + n
    /\ pc' = "send_poll"
    /\ UNCHANGED polls
    /\ UNCHANGED <<ref_count, ipv6, vSock, driver, driver_lost, woken, result, kg, self_woke,
                   drained, keep_going, refs, close, conn, proto, timers, sent,
                   vHandle, vAccept, vDirty>>

\* outgoing is empty: break Ok(false)
SendEmpty ==
    /\ pc = "send_poll"
    /\ outgoing = <<>>
    /\ kg' = [kg EXCEPT !.send = FALSE]
    /\ pc' = "finish"
    /\ polls' = 0
    /\ UNCHANGED <<ref_count, ipv6, vSock, driver, driver_lost, woken, result, self_woke, drained,
                   keep_going, refs, close, conn, proto, timers, vHandle,
                   vAccept, vSend, vDirty>>

\* the send limiter vetoes: break Ok(true)
SendVeto ==
    /\ pc = "send_poll"
    /\ outgoing # <<>>
    /\ kg' = [kg EXCEPT !.send = TRUE]
    /\ pc' = "finish"
    /\ polls' = 0
    /\ UNCHANGED <<ref_count, ipv6, vSock, driver, driver_lost, woken, result, self_woke, drained,
                   keep_going, refs, close, conn, proto, timers, vHandle,
                   vAccept, vSend, vDirty>>

\* a poll_send answer handled without draining what was sent
SendReadyKeeps(k, n) ==
    /\ pc = "send_poll"
    /\ outgoing # <<>>
    /\ k \in 1..Len(outgoing)
    /\ n \in 1..k
    /\ sent' = sent \o SubSeq(outgoing, 1, n)
    /\ pc' = "send"
    /\ polls < MaxPolls
    /\ polls' = polls + 1
    /\ UNCHANGED <<ref_count, ipv6, vSock, driver, driver_lost, woken, result, kg, self_woke,
                   drained, keep_going, refs, close, conn, proto, timers, ntx, outgoing,
                   vHandle, vAccept, vDirty>>

\* poll_send is offered the first k transmits (as_slices().0) and reports n of them sent
SendReady(k, n) ==
    /\ pc = "send_poll"
    /\ outgoing # <<>>
    /\ k \in 1..Len(outgoing)
    /\ n \in 1..k
    /\ sent' = sent \o SubSeq(outgoing, 1, n)
    /\ outgoing' = SubSeq(outgoing, n + 1, Len(outgoing))
    /\ pc' = "send"
    /\ polls < MaxPolls
    /\ polls' = polls + 1
    /\ UNCHANGED <<ref_count, ipv6, vSock, driver, driver_lost, woken, result, kg, self_woke,
                   drained, keep_going, refs, close, conn, proto, timers, ntx,
                   vHandle, vAccept, vDirty>>

\* poll_send returns Pending: break Ok(false)
SendPending ==
    /\ pc = "send_poll"
    /\ outgoing # <<>>
    /\ kg' = [kg EXCEPT !.send = FALSE]
    /\ pc' = "finish"
    /\ polls' = 0
    /\ UNCHANGED <<ref_count, ipv6, vSock, driver, driver_lost, woken, result, self_woke, drained,
                   keep_going, refs, close, conn, proto, timers, vHandle,
                   vAccept, vSend, vDirty>>

\* poll_send returns an error: poll returns it through `?`
SendErr ==
    /\ pc = "send_poll"
    /\ outgoing # <<>>
    /\ pc' = "done"
    /\ result' = "Err"
    /\ kg' = NoKg
    /\ polls' = 0
    /\ UNCHANGED <<ref_count, ipv6, vSock, driver, driver_lost, woken, self_woke, drained,
                   keep_going, refs, close, conn, proto, timers, vHandle,
                   vAccept, vSend, vDirty>>

(* --------------------------- end of the pass ---------------------------- *)
\* a termination condition that forgets the live connections
TerminatesOnHandles == ref_count = 0

\* the termination condition of EndpointDriver::poll
Terminates == ref_count = 0 /\ refs = {}

\* a tail of poll that does not wake the accept stream
PollFinishSilent ==
    /\ pc = "finish"
    /\ result' = IF Terminates THEN "Ok" ELSE "none"
    /\ self_woke' = (~Terminates /\ (kg.recv \/ kg.conns \/ kg.send))
    /\ pc' = "ret"
    /\ UNCHANGED polls
    /\ UNCHANGED <<ref_count, ipv6, vSock, driver, driver_lost, woken, kg, drained, keep_going,
                   refs, close, conn, proto, timers, vHandle, vAccept, vSend, vDirty>>

\* the tail of poll: wake the accept stream, then Ready(Ok(())) or Pending
PollFinish ==
    /\ pc = "finish"
    /\ incoming_reader' = (incoming_reader /\ incoming = <<>>)
    /\ reader' = IF incoming # <<>> /\ incoming_reader THEN "ready" ELSE reader
    /\ result' = IF Terminates THEN "Ok" ELSE "none"
    /\ self_woke' = (~Terminates /\ (kg.recv \/ kg.conns \/ kg.send))
    /\ pc' = "ret"
    /\ UNCHANGED polls
    /\ UNCHANGED <<ref_count, ipv6, vSock, driver, driver_lost, woken, kg, drained, keep_going,
                   refs, close, conn, proto, timers, incoming,
                   yielded, vHandle, vSend, vDirty>>

\* poll returns and the mutex guard is released
PollReturn ==
    /\ pc = "ret"
    /\ pc' = IF result = "Ok" THEN "done" ELSE "idle"
    /\ woken' = (woken \/ self_woke)
    /\ kg' = NoKg
    /\ self_woke' = FALSE
    /\ UNCHANGED polls
    /\ UNCHANGED <<ref_count, ipv6, vSock, driver, driver_lost, result, drained, keep_going, refs,
                   close, conn, proto, timers, vHandle, vAccept, vSend, vDirty>>

\* Drop for EndpointDriver, then Drop for its EndpointRef
DropDriver ==
    /\ driver_lost' = TRUE
    /\ incoming_reader' = FALSE
    /\ reader' = IF incoming_reader THEN "ready" ELSE reader
    /\ ref_count' = RefDropCount(ref_count)
    /\ driver' = (driver /\ ~RefDropWakes(ref_count, driver))
    /\ pc' = "gone"
    /\ UNCHANGED polls
    /\ UNCHANGED <<ipv6, vSock, woken, result, kg, self_woke, drained, keep_going, refs, close,
                   conn, proto, timers, incoming, yielded, vHandle,
                   vSend, vDirty>>

\* the spawned task drops the driver future after it completed
DriverDrop ==
    /\ pc = "done"
    /\ DropDriver

\* the runtime drops the driver task between two polls (shutdown, abort)
DriverAbort ==
    /\ pc = "idle"
    /\ DropDriver

(* ---------------------------- specifications --------------------------- *)
NoTimeout == {None}
Timeouts == {None} \cup {Some(d) : d \in Deadlines}

\* the steps every driver pass takes, whatever the socket and the connections do
PassStep ==
    \/ PollStart
    \/ RecvPending
    \/ CollectDirty
    \/ RetireDrained
    \/ SendEmpty
    \/ PollFinish
    \/ PollReturn
    \/ DriverDrop

\* drive_recv: datagrams for known connections, datagrams the proto-endpoint discards,
\* and errors
RecvRouted ==
    \/ \E h \in Handles, last \in BOOLEAN, allow \in BOOLEAN : RecvConnEvent(h, last, allow)
    \/ \E last \in BOOLEAN, allow \in BOOLEAN : RecvDiscard(last, allow)
    \/ RecvReset
    \/ RecvErr

\* drive_recv on a socket that also delivers the first datagram of a new connection
RecvStep ==
    \/ \E last \in BOOLEAN, allow \in BOOLEAN : RecvNewConn(last, allow)
    \/ RecvRouted

\* drive_send with transmits from the proto-endpoint and every answer of poll_send
SendStep ==
    \/ \E n \in 0..BATCH_SIZE : SendTopUp(n)
    \/ SendVeto
    \/ \E k \in 1..MaxTx, n \in 1..MaxTx : SendReady(k, n)
    \/ SendPending
    \/ SendErr

\* the whole program: every operation with every input
Next ==
    \/ PassStep
    \/ RecvStep
    \/ \E k \in TimerKeys : TimerExpire(k)
    \/ \E ntr \in 0..1, more \in BOOLEAN, t \in Timeouts, reply \in BOOLEAN :
          ProcessDirty(ntr, more, t, reply)
    \/ SendStep
    \/ DriverAbort
    \/ EndpointClone
    \/ EndpointDrop
    \/ \E cfg \in BOOLEAN, a \in BOOLEAN, ok \in BOOLEAN : Connect(cfg, a, ok)
    \/ \E a \in BOOLEAN, ok \in BOOLEAN : ConnectWith(a, ok)
    \/ \E c \in Codes, r \in Reasons, q \in Orders(refs) : Close(c, r, q)
    \/ IncomingPoll
    \/ IncomingDrop
    \/ \E h \in Handles : ConnWake(h)
    \/ \E h \in Handles : ConnEmitsDrained(h)
    \/ \E h \in Handles : ConnEmitsLate(h)
    \/ WaitIdleCall
    \/ WaitIdleResume
    \/ \E a \in BOOLEAN, w \in BOOLEAN, v6 \in BOOLEAN, q \in Orders(refs) : Rebind(a, w, v6, q)
    \/ EnvWake

Spec == Init /\ [][Next]_vars

\* Shutdown: handles are cloned and dropped, client connections are made, receive
\* events, transmit and drain, and the socket may fail; nobody calls close or polls the
\* accept stream, no new connection arrives and no connection arms a timer.
NextShutdown ==
    \/ PassStep
    \/ RecvRouted
    \/ \E ntr \in 0..1, more \in BOOLEAN, t \in NoTimeout, reply \in BOOLEAN :
          ProcessDirty(ntr, more, t, reply)
    \/ SendStep
    \/ EndpointClone
    \/ EndpointDrop
    \/ \E ok \in BOOLEAN : ConnectWith(TRUE, ok)
    \/ IncomingDrop
    \/ \E h \in Handles : ConnEmitsDrained(h)
    \/ EnvWake

SpecShutdown == InitV6 /\ [][NextShutdown]_vars

\* what the driver task does once the runtime polls it
DriverRun ==
    \/ PassStep
    \/ RecvRouted
    \/ \E ntr \in 0..1, more \in BOOLEAN, t \in NoTimeout, reply \in BOOLEAN :
          ProcessDirty(ntr, more, t, reply)
    \/ SendStep

\* the runtime polls the driver whenever it is woken, and every live connection
\* eventually emits its drained event
LiveShutdown ==
    /\ SpecShutdown
    /\ WF_vars(DriverRun)
    /\ \A h \in Handles : WF_vars(ConnEmitsDrained(h))

\* Close: connections arrive and are made, close is called any number of times, the
\* accept stream is polled, connections drain; no handle is dropped, nothing is
\* transmitted and no connection arms a timer.
NextClose ==
    \/ PassStep
    \/ RecvStep
    \/ \E more \in BOOLEAN, reply \in BOOLEAN : ProcessDirty(0, more, None, reply)
    \/ SendTopUp(0)
    \/ \E ok \in BOOLEAN : ConnectWith(TRUE, ok)
    \/ \E c \in Codes, r \in Reasons, q \in Orders(refs) : Close(c, r, q)
    \/ IncomingPoll
    \/ \E h \in Handles : ConnEmitsDrained(h)
    \/ EnvWake

SpecClose == InitV6 /\ [][NextClose]_vars

\* Accept while the stream is kept and the runtime keeps the driver task: connections
\* arrive and are made, the accept stream is polled, close is called, the socket may
\* fail; nothing is transmitted, no connection arms a timer or drains.
NextAcceptKept ==
    \/ PassStep
    \/ RecvStep
    \/ \E more \in BOOLEAN, reply \in BOOLEAN : ProcessDirty(0, more, None, reply)
    \/ SendTopUp(0)
    \/ EndpointDrop
    \/ \E cfg \in BOOLEAN, a \in BOOLEAN, ok \in BOOLEAN : Connect(cfg, a, ok)
    \/ \E a \in BOOLEAN, ok \in BOOLEAN : ConnectWith(a, ok)
    \/ \E c \in Codes, r \in Reasons, q \in Orders(refs) : Close(c, r, q)
    \/ IncomingPoll
    \/ EnvWake

\* Accept: as above, and the accept stream may be dropped and the driver task aborted
NextAccept ==
    \/ NextAcceptKept
    \/ IncomingDrop
    \/ DriverAbort

SpecAccept == Init /\ [][NextAccept]_vars

\* what the driver task does once the runtime polls it, in the accept scenario
DriverRunAccept ==
    \/ PassStep
    \/ RecvStep
    \/ \E more \in BOOLEAN, reply \in BOOLEAN : ProcessDirty(0, more, None, reply)
    \/ SendTopUp(0)

\* the runtime polls the driver whenever it is woken, and the consumer of the accept
\* stream polls it again whenever it has been woken and can take the endpoint lock
LiveAccept ==
    /\ Init
    /\ [][NextAcceptKept]_vars
    /\ WF_vars(DriverRunAccept)
    /\ SF_vars(IncomingPoll)

\* Idle: client connections are made and drain, possibly with an event behind the
\* drained marker, wait_idle is called, handles are dropped and the socket may fail;
\* nobody calls close or polls the accept stream, nothing is transmitted, no new
\* connection arrives and no connection arms a timer.
DriverRunIdle ==
    \/ PassStep
    \/ RecvRouted
    \/ \E more \in BOOLEAN, reply \in BOOLEAN : ProcessDirty(0, more, None, reply)
    \/ SendTopUp(0)

NextIdle ==
    \/ DriverRunIdle
    \/ EndpointDrop
    \/ IncomingDrop
    \/ \E ok \in BOOLEAN : ConnectWith(TRUE, ok)
    \/ WaitIdleCall
    \/ WaitIdleResume
    \/ \E h \in Handles : ConnEmitsDrained(h)
    \/ \E h \in Handles : ConnEmitsLate(h)
    \/ EnvWake

SpecIdle == InitV6 /\ [][NextIdle]_vars

\* the runtime polls the driver whenever it is woken, and a notified wait_idle is
\* resumed and gets the endpoint lock
LiveIdle ==
    /\ SpecIdle
    /\ WF_vars(DriverRunIdle)
    /\ SF_vars(WaitIdleResume)

\* Timers: client connections are made, are woken by their tasks and by datagrams,
\* report timeouts and drain, and timers expire; no handle is dropped, nobody calls
\* close or polls the accept stream, nothing is transmitted and the socket may fail.
NextTimers ==
    \/ PassStep
    \/ RecvErr
    \/ \E h \in Handles, last \in BOOLEAN, allow \in BOOLEAN : RecvConnEvent(h, last, allow)
    \/ \E k \in TimerKeys : TimerExpire(k)
    \/ \E more \in BOOLEAN, t \in Timeouts, reply \in BOOLEAN : ProcessDirty(0, more, t, reply)
    \/ SendTopUp(0)
    \/ \E ok \in BOOLEAN : ConnectWith(TRUE, ok)
    \/ \E h \in Handles : ConnWake(h)
    \/ \E h \in Handles : ConnEmitsDrained(h)
    \/ EnvWake

SpecTimers == InitV6 /\ [][NextTimers]_vars

\* Unit budget: both limiters allow work only while their cycle has recorded none, so
\* drive_recv is vetoed after the first batch it processed and drive_send after the first
\* poll_send that sent something; the socket delivers datagrams, resets and errors, and
\* takes or refuses transmits; client connections are made and transmit.
NextBounded ==
    \/ PassStep
    \/ \E h \in Handles, last \in BOOLEAN : RecvConnEvent(h, last, FALSE)
    \/ \E last \in BOOLEAN : RecvDiscard(last, FALSE)
    \/ RecvReset
    \/ RecvErr
    \/ \E ntr \in 0..1, more \in BOOLEAN, reply \in BOOLEAN : ProcessDirty(ntr, more, None, reply)
    \/ \E n \in 0..BATCH_SIZE : SendTopUp(n)
    \/ polls = 0 /\ \E k \in 1..MaxTx, n \in 1..MaxTx : SendReady(k, n)
    \/ polls = 0 /\ SendPending
    \/ polls = 0 /\ SendErr
    \/ polls >= 1 /\ SendVeto
    \/ \E ok \in BOOLEAN : ConnectWith(TRUE, ok)
    \/ EnvWake

SpecBounded == InitV6 /\ [][NextBounded]_vars

\* Dirty connections: client connections are made, are woken by their tasks and by
\* datagrams, ask to be driven again and drain, and the socket may fail; no handle is
\* dropped, nobody calls close or polls the accept stream, nothing is transmitted and no
\* connection arms a timer.
DriverRunDirty ==
    \/ PassStep
    \/ \E h \in Handles, last \in BOOLEAN, allow \in BOOLEAN : RecvConnEvent(h, last, allow)
    \/ RecvErr
    \/ \E more \in BOOLEAN, reply \in BOOLEAN : ProcessDirty(0, more, None, reply)
    \/ SendTopUp(0)

NextDirty ==
    \/ DriverRunDirty
    \/ \E ok \in BOOLEAN : ConnectWith(TRUE, ok)
    \/ \E h \in Handles : ConnWake(h)
    \/ \E h \in Handles : ConnEmitsDrained(h)
    \/ EnvWake

\* the runtime polls the driver whenever it is woken
LiveDirty == InitV6 /\ [][NextDirty]_vars /\ WF_vars(DriverRunDirty)

\* Rebind: the endpoint is moved to new sockets of either family, some of which cannot
\* be used, while client connections are made and drain and the socket may fail; no
\* handle is dropped, nobody calls close or polls the accept stream, nothing is
\* transmitted and no connection arms a timer.
NextRebind ==
    \/ PassStep
    \/ RecvErr
    \/ \E more \in BOOLEAN, reply \in BOOLEAN : ProcessDirty(0, more, None, reply)
    \/ SendTopUp(0)
    \/ \E a \in BOOLEAN, ok \in BOOLEAN : ConnectWith(a, ok)
    \/ \E a \in BOOLEAN, w \in BOOLEAN, v6 \in BOOLEAN, q \in Orders(refs) : Rebind(a, w, v6, q)
    \/ \E h \in Handles : ConnEmitsDrained(h)
    \/ EnvWake

SpecRebind == Init /\ [][NextRebind]_vars

\* Coalesced receive: the socket delivers messages of every length and stride, whose
\* segments open connections, carry events for them or are discarded; the socket may
\* fail; no handle is dropped, nobody calls close or polls the accept stream, nothing is
\* transmitted, no connection arms a timer or drains.
DriverRunGro ==
    \/ PollStart
    \/ \E len \in 0..MaxLen, stride \in 0..MaxStride : RecvMsg(len, stride)
    \/ SplitNewConn
    \/ \E h \in Handles : SplitConnEvent(h)
    \/ SplitDiscard
    \/ gro.data = 0 /\ RecvPending
    \/ gro.data = 0 /\ RecvErr
    \/ CollectDirty
    \/ \E more \in BOOLEAN, reply \in BOOLEAN : ProcessDirty(0, more, None, reply)
    \/ RetireDrained
    \/ SendTopUp(0)
    \/ SendEmpty
    \/ PollFinish
    \/ PollReturn
    \/ DriverDrop

NextGro ==
    \/ DriverRunGro
    \/ EnvWake

SpecGro == InitV6 /\ [][NextGro]_vars

\* the runtime polls the driver whenever it is woken
LiveGro == SpecGro /\ WF_vars(DriverRunGro)

(* ------------------------------- claims --------------------------------- *)
\* C1 (as stated): once ref_count is 0, the driver future eventually completes with Ok
C1_CompletesOk == (ref_count = 0) ~> (result = "Ok")

\* C1 (amended): once ref_count is 0, the driver future eventually completes: with the
\* I/O error the socket returned to drive_recv or drive_send if there is one, and with
\* Ok if the socket never returns such an error
C1_Completes ==
    /\ (ref_count = 0) ~> (result \in {"Ok", "Err"})
    /\ [](result # "Err") => ((ref_count = 0) ~> (result = "Ok"))

\* C1 witness: the driver completed with Ok after a connection was made and drained
C1_Witness ==
    /\ result = "Ok"
    /\ ref_count = 0
    /\ \E h \in Created : conn[h].pend = "gone"

\* C2: poll returns Ready(Ok) only with ref_count = 0 and no connection left, returns
\* Pending in every other error-free pass, and self-wakes in a Pending pass exactly when
\* one of the three pumps returned keep_going
C2_PollOutcome ==
    /\ result = "Ok" => (ref_count = 0 /\ refs = {})
    /\ pc = "ret" =>
          /\ (result = "Ok" <=> (ref_count = 0 /\ refs = {}))
          /\ (result # "Ok" => (self_woke <=> (kg.recv \/ kg.conns \/ kg.send)))
          /\ (result = "Ok" => ~self_woke)

\* C2 witness: a pass that ends Pending and self-wakes only because drive_send was vetoed
\* while a connection is still alive and every handle is gone
C2_Witness ==
    /\ pc = "ret"
    /\ result # "Ok"
    /\ ref_count = 0
    /\ refs # {}
    /\ self_woke
    /\ kg = [recv |-> FALSE, conns |-> FALSE, send |-> TRUE]

\* C3 (as stated): whenever poll has returned Ready(Ok), outgoing is empty
C3_FlushedAtExit == result = "Ok" => outgoing = <<>>

\* C4: what the socket accepted followed by what is still queued is exactly what was
\* pushed, in the order pushed (no loss, no duplicate, no reordering); a Pending answer
\* of poll_send leaves outgoing as it is and makes drive_send return false
C4_TransmitOrder ==
    /\ [](sent \o outgoing = [i \in 1..ntx |-> i])
    /\ [][SendPending => (outgoing' = outgoing /\ sent' = sent /\ ~kg'.send)]_vars

\* C4 witness: the socket took a prefix, then answered Pending with transmits still queued
C4_Witness ==
    /\ pc = "finish"
    /\ ~kg.send
    /\ sent # <<>>
    /\ Len(outgoing) >= 2

\* C5: once a close is recorded every connection in refs has had close() invoked, and a
\* connection inserted afterwards is closed with the recorded code and reason as it is
\* stored
C5_ClosedWhenRecorded ==
    /\ [](IsSome(close) => \A h \in refs : IsSome(conn[h].closed))
    /\ [][IsSome(close) => \A h \in refs' \ refs : conn'[h].closed = close]_vars

\* C5 witness: a close is recorded and refs holds a connection made by connect_with and
\* one accepted by drive_recv, both inserted after the close
C5_Witness ==
    /\ IsSome(close)
    /\ \E h, g \in refs :
          /\ conn[h].side = "client"
          /\ conn[g].side = "server"
          /\ conn[h].closed = close
          /\ conn[g].closed = close
          /\ g \in {incoming[i] : i \in DOMAIN incoming}

\* C6 (as stated): after close() no step of drive_recv adds a connection to refs or
\* pushes one onto incoming
C6_NoAcceptAfterClose ==
    [][(IsSome(close) /\ pc = "recv") => (refs' = refs /\ incoming' = incoming)]_vars

\* C7 (as stated): once a close (c, r) is recorded, further close calls leave the
\* connection set and the accept stream as they are, and every connection inserted
\* later is closed with (c, r)
C7_CloseIdempotent ==
    [][IsSome(close) =>
          /\ close' = close
          /\ \A h \in refs' \ refs : conn'[h].closed = close
          /\ \A h \in refs : conn'[h].closed = conn[h].closed]_vars

\* the handles of the connections drive_recv accepted, in the order it pushed them
Accepted == SelectSeq([i \in 1..Cardinality(Created) |-> i], LAMBDA h : conn[h].side = "server")

InQueue(h) == \E i \in DOMAIN incoming : incoming[i] = h
WasYielded(h) == \E i \in DOMAIN yielded : yielded[i] = h

\* C8 (as stated): every connection drive_recv pushed onto incoming is eventually
\* yielded by the accept stream
C8_EveryAcceptedYielded == \A h \in Handles : InQueue(h) ~> WasYielded(h)

\* C8 (amended): the accept stream yields the accepted connections at most once and in
\* the order drive_recv pushed them, and it yields every one of them if the driver is
\* never lost
C8_AcceptFifo ==
    /\ [](yielded \o incoming = Accepted)
    /\ [](~driver_lost) => \A h \in Handles : InQueue(h) ~> WasYielded(h)

\* C8 witness: two accepted connections have been yielded, in order
C8_Witness == Len(yielded) = 2 /\ yielded = Accepted

\* C9: a parked consumer has nothing to observe once the driver is outside a pass (a
\* pass that failed wakes it through the drop of the driver), and every poll answers
\* end-of-stream if driver_lost, else the oldest queued connection, else end-of-stream
\* if a close is recorded, else parks
C9_AcceptNotStuck ==
    /\ []((reader = "parked" /\ incoming_alive /\ pc \in {"idle", "gone"})
            => (incoming = <<>> /\ close = None /\ ~driver_lost /\ incoming_reader))
    /\ [][IncomingPoll =>
            IF driver_lost THEN reader' = "ended" /\ yielded' = yielded
            ELSE IF incoming # <<>>
                 THEN yielded' = Append(yielded, Head(incoming)) /\ incoming' = Tail(incoming)
            ELSE IF IsSome(close) THEN reader' = "ended" /\ yielded' = yielded
            ELSE reader' = "parked" /\ incoming_reader']_vars

\* C9 witness: the consumer was handed the connection a pass had queued, polled again
\* and parked, and the driver is suspended with nothing queued
C9_Witness ==
    /\ reader = "parked"
    /\ incoming_reader
    /\ pc = "idle"
    /\ yielded # <<>>
    /\ incoming = <<>>
    /\ close = None
    /\ ~driver_lost

\* C10 (as stated): once the driver is lost every connect and connect_with call returns
\* EndpointStopping
C10_AllConnectsStop ==
    driver_lost =>
        /\ \A a \in BOOLEAN, ok \in BOOLEAN : ConnectWithResult(a, ok) = "EndpointStopping"
        /\ \A cfg \in BOOLEAN, a \in BOOLEAN, ok \in BOOLEAN :
              ConnectResult(cfg, a, ok) = "EndpointStopping"

\* C10 (amended): driver_lost is never reset; once it is set the accept stream only
\* answers end-of-stream, no connection is inserted, connect_with and connect on a handle
\* with a default client config return EndpointStopping, and connect on a handle without
\* one returns NoDefaultClientConfig
C10_DriverLossTerminal ==
    /\ [](driver_lost =>
            /\ \A a \in BOOLEAN, ok \in BOOLEAN :
                  /\ ConnectWithResult(a, ok) = "EndpointStopping"
                  /\ ConnectResult(TRUE, a, ok) = "EndpointStopping"
                  /\ ConnectResult(FALSE, a, ok) = "NoDefaultClientConfig")
    /\ [][driver_lost =>
            /\ driver_lost'
            /\ refs' = refs
            /\ yielded' = yielded
            /\ incoming' = incoming
            /\ (reader' # reader => reader' = "ended")]_vars

\* C10 witness: the driver failed on a socket error and was dropped with a connection
\* still queued, and the accept stream answered end-of-stream
C10_Witness ==
    /\ driver_lost
    /\ result = "Err"
    /\ reader = "ended"
    /\ incoming # <<>>
    /\ endpoints >= 1

\* C11: while the driver is alive connect_with returns InvalidRemoteAddress exactly for
\* an IPv6 destination on a socket that is not IPv6; the address of a connection it
\* made has the family of the socket, an IPv4 destination on an IPv6 socket in its
\* mapped form; a call that returns an error leaves refs, incoming, outgoing and timers
\* as they are, and a call that succeeds adds exactly one new handle to refs
C11_ConnectWith ==
    /\ [](~driver_lost => \A a \in BOOLEAN, ok \in BOOLEAN :
            /\ (ConnectWithResult(a, ok) = "InvalidRemoteAddress") <=> (a /\ ~ipv6)
            /\ (ipv6 /\ ok) => ConnectWithResult(a, ok) = "Ok")
    /\ [][\A a \in BOOLEAN, ok \in BOOLEAN : ConnectWith(a, ok) =>
            IF ConnectWithResult(a, ok) = "Ok"
            THEN /\ refs \subseteq refs'
                 /\ Cardinality(refs' \ refs) = 1
                 /\ \A h \in refs' \ refs :
                       /\ h \notin Created
                       /\ conn'[h].remote = IF ~ipv6 THEN "V4"
                                            ELSE IF a THEN "V6" ELSE "V4Mapped"
            ELSE /\ refs' = refs
                 /\ incoming' = incoming
                 /\ outgoing' = outgoing
                 /\ timers' = timers]_vars

\* C11 witness: on an IPv6 socket a connection to an IPv4 destination was made, under
\* its mapped address
C11_Witness ==
    /\ ipv6
    /\ ~driver_lost
    /\ \E h \in refs : conn[h].side = "client" /\ conn[h].remote = "V4Mapped"

Returned == {"returned_now", "returned_woken"}

\* C12: wait_idle returns only with the lock held and connections empty, looks at
\* connections again after every wakeup, and returns at once, without registering on
\* idle, when it is called while connections is empty
C12_WaitIdleReturns ==
    /\ [][(waiter' \in Returned /\ waiter' # waiter) => (LockFree /\ refs = {} /\ refs' = {})]_vars
    /\ [][WaitIdleResume =>
            waiter' = IF refs = {} THEN "returned_woken" ELSE "registered"]_vars
    /\ [][(WaitIdleCall /\ refs = {}) => waiter' = "returned_now"]_vars

\* C12 witness: wait_idle was called after every connection made had been retired and
\* returned without suspending
C12_Witness ==
    /\ waiter = "returned_now"
    /\ refs = {}
    /\ Created # {}

\* C13: a waiter is never left registered on idle while connections is empty, the step
\* that empties connections notifies it, and a notified waiter eventually returns or,
\* if a connection was made meanwhile, registers again
C13_NoLostIdleWakeup ==
    /\ [](waiter = "registered" => refs # {})
    /\ [][(waiter = "registered" /\ refs' = {}) => waiter' = "notified"]_vars
    /\ (waiter = "notified") ~> (waiter \in {"returned_woken", "registered"})

\* C13 witness: a waiter that had registered on idle returned after the driver retired
\* the last connection
C13_Witness ==
    /\ waiter = "returned_woken"
    /\ refs = {}
    /\ \E h \in Created : conn[h].pend = "gone"

\* C14: a connection whose drained marker was polled stays in refs only until the end
\* of that drive_connections call, every event behind its marker has been forwarded by
\* then, a handle leaves refs only that way, and the call that empties refs notifies
\* the waiters on idle
C14_DrainedRetired ==
    /\ [](\A h \in refs : conn[h].pend = "gone" =>
            (pc = "dirty" /\ \E i \in DOMAIN drained : drained[i] = h))
    /\ [](\A h \in Created : conn[h].pend = "gone" => conn[h].fwd = conn[h].after)
    /\ [][\A h \in refs \ refs' : pc = "dirty" /\ pc' = "send" /\ conn[h].pend = "gone"]_vars
    /\ [][(pc = "dirty" /\ pc' = "send" /\ refs' = {} /\ waiter = "registered")
            => waiter' = "notified"]_vars

\* C14 witness: drive_connections has just retired the last connection, whose drained
\* marker had an event behind it, and notified the waiter
C14_Witness ==
    /\ pc = "send"
    /\ refs = {}
    /\ waiter = "notified"
    /\ \E h \in Created : conn[h].pend = "gone" /\ conn[h].after = 1 /\ conn[h].fwd = 1

\* h is queued on the dirty channel
OnDirtyChannel(h) == \E i \in DOMAIN dirty_recv : dirty_recv[i] = h

\* C15: when poll returns Pending without having woken itself, every live connection
\* whose poll_timeout() returned a deadline when it was last processed has an entry with
\* that deadline in timers, or is queued on the dirty channel again
C15_TimerCoherence ==
    (pc = "ret" /\ result = "none" /\ ~self_woke) =>
        \A h \in refs : IsSome(conn[h].timeout) =>
            \/ \E k \in TimerKeys : timers[k] = Some(<<h, Unwrap(conn[h].timeout)>>)
            \/ OnDirtyChannel(h)

\* C15 witness: the driver suspends while a connection that is not dirty has its
\* deadline armed in timers
C15_Witness ==
    /\ pc = "ret"
    /\ result = "none"
    /\ ~self_woke
    /\ \E h \in refs :
          /\ IsSome(conn[h].timeout)
          /\ ~conn[h].is_dirty
          /\ ~OnDirtyChannel(h)
          /\ \E k \in TimerKeys : timers[k] = Some(<<h, Unwrap(conn[h].timeout)>>)

\* the entries of timers that carry handle h
TimerEntries(h) == {k \in TimerKeys : IsSome(timers[k]) /\ Unwrap(timers[k])[1] = h}

\* how often h is queued for the dirty stage: on the channel and in dirty_buffer
TimesQueued(h) ==
    LET q == dirty_recv \o dirty_buffer IN Cardinality({i \in DOMAIN q : q[i] = h})

\* C16: a connection is in refs from its insertion until its drained marker has been
\* polled, its handle is in at most one entry of timers, and it is queued at most once
\* for the dirty stage
C16_HandleOnce ==
    /\ \A h \in Created : conn[h].pend # "gone" => h \in refs
    /\ \A h \in Handles : Cardinality(TimerEntries(h)) <= 1
    /\ \A h \in Created : TimesQueued(h) <= 1

\* C16 witness: during the dirty loop a connection that has a timer armed is queued on
\* the channel, once, while another one waits in dirty_buffer
C16_Witness ==
    /\ pc = "dirty"
    /\ dirty_buffer # <<>>
    /\ \E h \in refs :
          /\ TimerEntries(h) # {}
          /\ TimesQueued(h) = 1
          /\ OnDirtyChannel(h)
          /\ Head(dirty_buffer) # h

\* C17 (as stated): outgoing never holds more than a batch plus K transmits, with K = 1,
\* the most that one call of drive_transmit pushes here
C17_OutgoingBounded == Len(outgoing) <= BATCH_SIZE + 1

\* C18 (as stated): with limiters that veto after one recorded unit of work, a call of
\* drive_recv or drive_send goes on to poll the socket again after at most one poll,
\* whatever the socket returns
C18_BoundedPass == polls <= 1

\* C19 (as stated): ref_count is the number of live Endpoint handles plus one for the
\* Incoming stream while it is alive
C19_RefCountIsHandles == ref_count = endpoints + (IF incoming_alive THEN 1 ELSE 0)

\* h is in the snapshot the dirty loop is working through
InBuffer(h) == \E i \in DOMAIN dirty_buffer : dirty_buffer[i] = h

\* C20 (as stated): every handle queued on the dirty channel for a live connection is
\* eventually taken into the snapshot of a dirty stage
C20_EveryDirtyProcessed ==
    \A h \in Handles : (h \in refs /\ OnDirtyChannel(h)) ~> InBuffer(h)

\* C20 (amended): if no pass ends in a socket error, every handle queued for a live
\* connection is eventually taken into a snapshot, and every handle in a snapshot is
\* processed; the loop works through the snapshot only, a connection that is dirty again
\* when its turn ends is on the channel and not in the snapshot, with keep_going set, and
\* the driver is never suspended with a handle on the channel
C20_DirtyFairness ==
    /\ [](result # "Err") =>
          \A h \in Handles : (h \in refs /\ OnDirtyChannel(h)) ~> InBuffer(h)
    /\ \A h \in Handles : InBuffer(h) ~> ~InBuffer(h)
    /\ [][(pc = "dirty" /\ pc' = "dirty" /\ dirty_buffer' # dirty_buffer)
            => /\ dirty_buffer' = Tail(dirty_buffer)
               /\ LET h == Head(dirty_buffer) IN
                  (h \in refs /\ conn'[h].is_dirty) =>
                      /\ keep_going'
                      /\ \E i \in DOMAIN dirty_recv' : dirty_recv'[i] = h
                      /\ \A i \in DOMAIN dirty_buffer' : dirty_buffer'[i] # h]_vars
    /\ []((pc = "idle" /\ ~woken) => dirty_recv = <<>>)

\* C20 witness: in the dirty loop a connection whose turn has ended asked to be driven
\* again: it is on the channel, not in the snapshot, and keep_going is set
C20_Witness ==
    /\ pc = "dirty"
    /\ keep_going
    /\ dirty_buffer # <<>>
    /\ \E h \in refs :
          /\ conn[h].is_dirty
          /\ OnDirtyChannel(h)
          /\ ~InBuffer(h)

\* C21: a call of rebind that fails leaves the socket, the ipv6 flag and every
\* connection as they were; a call that succeeds is made with the endpoint lock free,
\* installs the socket it was given and the family of that socket's address in one step,
\* and pings every connection in refs and leaves it dirty and queued once for the dirty
\* stage, touching no other connection and leaving refs as it is
C21_RebindAllOrNothing ==
    [][rebind' # rebind =>
         IF rebind'.result = "Err"
         THEN UNCHANGED <<socket, ipv6, refs, conn, proto, timers, dirty_recv, dirty_buffer,
                          outgoing, incoming, close>>
         ELSE /\ LockFree
              /\ socket' = rebind'.calls
              /\ socket' # socket
              /\ ipv6' = rebind'.v6
              /\ refs' = refs
              /\ \A h \in refs :
                    /\ conn'[h].pings = conn[h].pings + 1
                    /\ conn'[h].is_dirty
                    /\ TimesQueued(h)' = 1
              /\ \A h \in Created \ refs : conn'[h] = conn[h]]_vars

\* C21 witness: the endpoint was moved from an IPv6 to an IPv4 socket after an earlier
\* call had failed, and a live connection that was clean was pinged and queued
C21_Witness ==
    /\ rebind.result = "Ok"
    /\ rebind.calls = 2
    /\ socket = 2
    /\ ~ipv6
    /\ pc = "idle"
    /\ \E h \in refs :
          /\ conn[h].pings = 1
          /\ conn[h].is_dirty
          /\ OnDirtyChannel(h)
          /\ conn[h].remote = "V6"

RECURSIVE SumSeq(_)
SumSeq(q) == IF q = <<>> THEN 0 ELSE Head(q) + SumSeq(Tail(q))

\* C22 (as stated): for every message the split loop terminates; the segments fed and
\* the bytes left make up the message, every segment but the last is one stride long
\* and no segment is empty, so that the last one is len mod stride long when that is
\* not zero
C22_GroSplit ==
    /\ (gro.data > 0) ~> (gro.data = 0)
    /\ [](SumSeq(gro.segs) + gro.data = gro.len)
    /\ [](\A i \in DOMAIN gro.segs :
            /\ gro.segs[i] >= 1
            /\ (i < Len(gro.segs) \/ gro.data > 0) => gro.segs[i] = gro.stride)

\* C23: outside the dirty loop every handle the proto-endpoint routes to is a key of
\* refs, in particular whenever drive_recv runs; a handle leaves refs only at the end of
\* the drive_connections call that handed its drained event to the proto-endpoint, which
\* no longer routes to it; and the lookup in drive_recv never fails
C23_RoutedInRefs ==
    /\ [](pc # "dirty" => proto.conns \subseteq refs)
    /\ [](pc # "panic")
    /\ [][\A h \in refs \ refs' :
            /\ pc = "dirty"
            /\ \E i \in DOMAIN drained : drained[i] = h
            /\ h \notin proto.conns]_vars

\* C23 witness: drive_recv runs after one connection has been retired and has delivered
\* an event to another one, which it found in refs and woke
C23_Witness ==
    /\ pc = "recv"
    /\ polls >= 1
    /\ woken
    /\ ~dirty_waker
    /\ close = None
    /\ \E g \in Created : g \notin refs /\ g \notin proto.conns
    /\ \E h \in refs \cap proto.conns :
          /\ conn[h].is_dirty
          /\ conn[h].pend = "none"
          /\ OnDirtyChannel(h)

\* C24 (as stated): after the dirty loop processed a connection whose poll_timeout()
\* returned t, its timer_deadline is t and its timer_handle names an entry of timers with
\* deadline t; and processing it again with the same t while that entry is armed leaves
\* timers as it is and sets keep_going only if the connection asked to be driven again
C24_StoredTimerMatches ==
    [][(pc = "dirty" /\ pc' = "dirty" /\ dirty_buffer' # dirty_buffer) =>
         LET h == Head(dirty_buffer) IN
         (h \in refs /\ IsSome(conn'[h].timeout)) =>
            /\ conn'[h].timer_deadline = conn'[h].timeout
            /\ IsSome(conn'[h].timer_handle)
            /\ timers'[Unwrap(conn'[h].timer_handle)] = Some(<<h, Unwrap(conn'[h].timeout)>>)
            /\ (conn[h].timeout = conn'[h].timeout /\ IsSome(conn[h].timer_handle)) =>
                  /\ timers' = timers
                  /\ keep_going' => (keep_going \/ conn'[h].is_dirty)]_vars

====
